---- MODULE Spec2Model ----
(***************************************************************************)
(* Model of src/main.go: the three HTTP handlers over the package-level    *)
(* `birds` slice (handler, getBirdHandler, createBirdHandler) and the      *)
(* relational store's GetBirds.                                            *)
(*                                                                         *)
(* Strings that the program transforms (form values, JSON text) are kept   *)
(* as sequences of one-character strings so that unescaping and JSON       *)
(* encoding are computed character by character, as the library code does. *)
(*                                                                         *)
(* Three specifications:                                                   *)
(*   Spec      one request at a time (each handler runs to completion      *)
(*             before the next request starts);                            *)
(*   SpecConc  net/http's scheduling: one goroutine per request, the       *)
(*             handlers' accesses to `birds` interleave freely;            *)
(*   SpecDb    calls of dbStore.GetBirds against a database/sql cursor.    *)
(***************************************************************************)
EXTENDS Integers, Sequences, FiniteSets, TLC

\* createBirdHandler is not started once the list holds this many records.
MaxBirds == 2
\* Largest result set the select query returns.
MaxRows == 3

\* The request goroutines: two, so that any two requests may overlap.
Workers == {1, 2}

VARIABLES
    birds,      \* main.go:67  the package-level slice (<<>> is the nil slice)
    pc,         \* per goroutine: where in its handler it stands
    op,         \* per goroutine: the handler the router dispatched to
    req,        \* per goroutine: index in PostRequests of the POST being served (0: none)
    bird,       \* per goroutine: createBirdHandler's local `bird`
    snap,       \* per goroutine: the value of `birds` read by append's argument
    resp,       \* per goroutine: what was written to the ResponseWriter
    before,     \* history: `birds` when the latest request started
    raced,      \* history: a create wrote `birds` since this goroutine's reset
    dbpc,       \* GetBirds: "idle", "iter" (inside the for loop), "returned"
    rows,       \* GetBirds: the rows of the query result
    pos,        \* GetBirds: number of rows the cursor has advanced over
    cursor,     \* GetBirds: "none", "open", "closed"
    rowsErr,    \* GetBirds: the cursor's sticky error (rows.Err() # nil)
    out,        \* GetBirds: the local `birds` slice being built
    ret         \* GetBirds: the returned pair

httpVars == <<birds, pc, op, req, bird, snap, resp, before, raced>>
dbVars == <<dbpc, rows, pos, cursor, rowsErr, out, ret>>
vars == <<birds, pc, op, req, bird, snap, resp, before, raced,
          dbpc, rows, pos, cursor, rowsErr, out, ret>>

----------------------------------------------------------------------------
(* type Bird, main.go:62-65, and the seed of main.go:71 *)

Bird(s, d) == [Species |-> s, Description |-> d]

SeedList == << Bird(<<"C","h","i","m","n","i">>,
                    <<"F","o","u","n","d"," ","i","n"," ","I","n","d","i","a">>) >>

----------------------------------------------------------------------------
(* net/url: QueryUnescape and ParseQuery, which r.ParseForm() (main.go:101) *)
(* applies to the request body, and Values.Get (main.go:111-112).           *)

\* The printable ASCII characters, in code order from 32 (space) to 126 (the
\* grave accent, code 96, cannot be written in a string here: "?" stands for it).
AsciiPrintable == <<
    " ", "!", "\"", "#", "$", "%", "&", "'", "(", ")", "*", "+", ",", "-", ".", "/",
    "0", "1", "2", "3", "4", "5", "6", "7", "8", "9", ":", ";", "<", "=", ">", "?",
    "@", "A", "B", "C", "D", "E", "F", "G", "H", "I", "J", "K", "L", "M", "N", "O",
    "P", "Q", "R", "S", "T", "U", "V", "W", "X", "Y", "Z", "[", "\\", "]", "^", "_",
    "?", "a", "b", "c", "d", "e", "f", "g", "h", "i", "j", "k", "l", "m", "n", "o",
    "p", "q", "r", "s", "t", "u", "v", "w", "x", "y", "z", "{", "|", "}", "~"
>>

\* The character of a decoded byte; bytes outside printable ASCII are not
\* produced by any request body used here and are shown as "?".
ByteChar(n) == IF n \in 32..126 THEN AsciiPrintable[n - 31] ELSE "?"

HexDigits == <<"0","1","2","3","4","5","6","7","8","9","a","b","c","d","e","f">>
HexDigitsUpper == <<"0","1","2","3","4","5","6","7","8","9","A","B","C","D","E","F">>

ishex(c) == \E i \in 1..16 : HexDigits[i] = c \/ HexDigitsUpper[i] = c

unhex(c) == (CHOOSE i \in 1..16 : HexDigits[i] = c \/ HexDigitsUpper[i] = c) - 1

RECURSIVE QueryUnescape(_)
\* [err, str]: "%XX" becomes the byte XX, "+" becomes a space; a "%" that is
\* not followed by two hex digits is an EscapeError.
QueryUnescape(s) ==
    IF s = <<>> THEN [err |-> FALSE, str |-> <<>>]
    ELSE IF Head(s) = "%"
    THEN IF Len(s) < 3 \/ ~ishex(s[2]) \/ ~ishex(s[3])
         THEN [err |-> TRUE, str |-> <<>>]
         ELSE LET rest == QueryUnescape(SubSeq(s, 4, Len(s)))
              IN  IF rest.err THEN rest
                  ELSE [err |-> FALSE,
                        str |-> <<ByteChar(16 * unhex(s[2]) + unhex(s[3]))>> \o rest.str]
    ELSE LET rest == QueryUnescape(Tail(s))
         IN  IF rest.err THEN rest
             ELSE [err |-> FALSE,
                   str |-> <<(IF Head(s) = "+" THEN " " ELSE Head(s))>> \o rest.str]

RECURSIVE ParseQuery(_)
\* A body is the sequence of its "key=value" segments, each <<key, value>> still
\* escaped. [err, form]: form is the decoded <<key, value>> pairs in order; a
\* segment that fails to unescape is skipped and the error is reported.
ParseQuery(body) ==
    IF body = <<>> THEN [err |-> FALSE, form |-> <<>>]
    ELSE LET k == QueryUnescape(Head(body)[1])
             v == QueryUnescape(Head(body)[2])
             rest == ParseQuery(Tail(body))
         IN  IF k.err \/ v.err
             THEN [err |-> TRUE, form |-> rest.form]
             ELSE [err |-> rest.err, form |-> <<(<<k.str, v.str>>)>> \o rest.form]

RECURSIVE FormGet(_, _)
\* url.Values.Get: the first value stored under key, "" when there is none.
FormGet(form, key) ==
    IF form = <<>> THEN <<>>
    ELSE IF Head(form)[1] = key THEN Head(form)[2]
    ELSE FormGet(Tail(form), key)

KeySpecies == <<"s","p","e","c","i","e","s">>
KeyDescription == <<"d","e","s","c","r","i","p","t","i","o","n">>

----------------------------------------------------------------------------
(* encoding/json: json.Marshal(birds), main.go:81 and the tags of 63-64 *)

\* One character inside a JSON string, with encoding/json's HTML-safe escapes.
JsonChar(c) ==
    CASE c = "\"" -> "\\\""
      [] c = "\\" -> "\\\\"
      [] c = "<"  -> "\\u003c"
      [] c = ">"  -> "\\u003e"
      [] c = "&"  -> "\\u0026"
      [] OTHER    -> c

RECURSIVE JsonChars(_)
JsonChars(s) == IF s = <<>> THEN "" ELSE JsonChar(Head(s)) \o JsonChars(Tail(s))

JsonString(s) == "\"" \o JsonChars(s) \o "\""

JsonBird(b) ==
    "{\"species\":" \o JsonString(b.Species)
        \o ",\"description\":" \o JsonString(b.Description) \o "}"

RECURSIVE JsonElems(_)
JsonElems(l) ==
    IF Len(l) = 1 THEN JsonBird(l[1])
    ELSE JsonBird(Head(l)) \o "," \o JsonElems(Tail(l))

\* [err, bytes]. A nil slice encodes as null; strings and structs of strings
\* never fail to encode.
Marshal(l) ==
    [err |-> FALSE,
     bytes |-> IF l = <<>> THEN "null" ELSE "[" \o JsonElems(l) \o "]"]

----------------------------------------------------------------------------
(* The POST /bird requests served: each with the escaped body sent, whether *)
(* that body is well-formed form encoding, and the values it submits.       *)

Crow == <<"C","r","o","w">>
BlackBird == <<"B","l","a","c","k"," ","b","i","r","d">>

PostRequests == <<
    \* species=Crow&description=Black+bird
    [body |-> << <<KeySpecies, Crow>>,
                 <<KeyDescription, <<"B","l","a","c","k","+","b","i","r","d">> >> >>,
     wellformed |-> TRUE, species |-> Crow, description |-> BlackBird],
    \* sp%65cies=Crow&description=Black%20bird&species=Dove
    [body |-> << << <<"s","p","%","6","5","c","i","e","s">>, Crow >>,
                 <<KeyDescription, <<"B","l","a","c","k","%","2","0","b","i","r","d">> >>,
                 <<KeySpecies, <<"D","o","v","e">> >> >>,
     wellformed |-> TRUE, species |-> Crow, description |-> BlackBird],
    \* description=%3C3          (species absent)
    [body |-> << <<KeyDescription, <<"%","3","C","3">> >> >>,
     wellformed |-> TRUE, species |-> <<>>, description |-> <<"<","3">>],
    \* the empty body            (both absent)
    [body |-> <<>>,
     wellformed |-> TRUE, species |-> <<>>, description |-> <<>>],
    \* species=%zz
    [body |-> << <<KeySpecies, <<"%","z","z">> >> >>,
     wellformed |-> FALSE, species |-> <<>>, description |-> <<>>],
    \* species=Crow&description=%
    [body |-> << <<KeySpecies, Crow>>, <<KeyDescription, <<"%">> >> >>,
     wellformed |-> FALSE, species |-> Crow, description |-> <<>>]
>>

----------------------------------------------------------------------------
(* The HTTP handlers, main.go:58-127 *)

StatusOK == 200
StatusFound == 302
StatusInternalServerError == 500

Response(st, b, loc) == [status |-> st, body |-> b, location |-> loc]
NoResp == Response(0, "", "")
NoBird == Bird(<<>>, <<>>)

HelloBody_comma == "Hello, World!"

\* main.go:59
HelloBody == "Hello World!"

ResetBirds_keep(l) == l

\* main.go:71  birds = []Bird{{"Chimni", "Found in India"}}
ResetBirds(l) == SeedList

ParseFailed_ignored(r) == FALSE

\* main.go:104  if err != nil
ParseFailed(r) == r.err

AppendBird_front(l, b) == <<b>> \o l

\* main.go:115  append(birds, bird)
AppendBird(l, b) == Append(l, b)

NewBirdsValue_current(w) == Append(birds, bird[w])

\* main.go:115  the value assigned to birds: the slice read when append's
\* argument was evaluated, with the new record added.
NewBirdsValue(w) == AppendBird(snap[w], bird[w])

Idle(w) == pc[w] = "idle"

\* A goroutine starts serving a request: its previous request's locals are gone.
Begin(w, h, i) ==
    /\ Idle(w)
    /\ op' = [op EXCEPT ![w] = h]
    /\ req' = [req EXCEPT ![w] = i]
    /\ before' = birds
    /\ raced' = [raced EXCEPT ![w] = FALSE]

\* GET /hello, main.go:58-60.
handler(w) ==
    /\ Begin(w, "hello", 0)
    /\ resp' = [resp EXCEPT ![w] = Response(StatusOK, HelloBody, "")]
    /\ bird' = [bird EXCEPT ![w] = NoBird]
    /\ snap' = [snap EXCEPT ![w] = <<>>]
    /\ UNCHANGED <<birds, pc>>
    /\ UNCHANGED dbVars

\* GET /bird, main.go:69-71: the list is overwritten with the seed.
getBirdHandler_reset(w) ==
    /\ Begin(w, "get", 0)
    /\ birds' = ResetBirds(birds)
    /\ pc' = [pc EXCEPT ![w] = "marshal"]
    /\ resp' = [resp EXCEPT ![w] = NoResp]
    /\ bird' = [bird EXCEPT ![w] = NoBird]
    /\ snap' = [snap EXCEPT ![w] = <<>>]
    /\ UNCHANGED dbVars

\* GET /bird, main.go:81-92: the list as it now stands is encoded and written.
getBirdHandler_marshal(w) ==
    /\ pc[w] = "marshal"
    /\ LET m == Marshal(birds)
       IN  resp' = [resp EXCEPT ![w] =
                       IF m.err THEN Response(StatusInternalServerError, "", "")
                       ELSE Response(StatusOK, m.bytes, "")]
    /\ pc' = [pc EXCEPT ![w] = "idle"]
    /\ UNCHANGED <<birds, op, req, bird, snap, before, raced>>
    /\ UNCHANGED dbVars

\* POST /bird, main.go:94-112: the form is parsed; on an error the handler
\* answers 500 and returns, otherwise the local bird is filled in.
createBirdHandler_parse(w, i) ==
    /\ Begin(w, "create", i)
    /\ Len(birds) < MaxBirds
    /\ LET r == ParseQuery(PostRequests[i].body)
       IN  IF ParseFailed(r)
           THEN /\ resp' = [resp EXCEPT ![w] = Response(StatusInternalServerError, "", "")]
                /\ bird' = [bird EXCEPT ![w] = NoBird]
                /\ pc' = pc
           ELSE /\ resp' = [resp EXCEPT ![w] = NoResp]
                /\ bird' = [bird EXCEPT ![w] =
                               Bird(FormGet(r.form, KeySpecies),
                                    FormGet(r.form, KeyDescription))]
                /\ pc' = [pc EXCEPT ![w] = "read"]
    /\ snap' = [snap EXCEPT ![w] = <<>>]
    /\ UNCHANGED birds
    /\ UNCHANGED dbVars

\* POST /bird, main.go:115, right-hand side: append's argument `birds` is read.
\* The statement is not atomic: nothing orders this read and the store below
\* against the other goroutines' accesses to `birds`, so any of their steps
\* may fall between the two. (Whether append copies into a new array or
\* writes in place into spare capacity, what a later reader of `birds` sees
\* is the header stored last: the list read here with the one record added.)
createBirdHandler_read(w) ==
    /\ pc[w] = "read"
    /\ Len(birds) < MaxBirds
    /\ snap' = [snap EXCEPT ![w] = birds]
    /\ pc' = [pc EXCEPT ![w] = "write"]
    /\ UNCHANGED <<birds, op, req, bird, resp, before, raced>>
    /\ UNCHANGED dbVars

\* POST /bird, main.go:115-126: the result of append is stored in `birds` and
\* the redirect is written.
createBirdHandler_write(w) ==
    /\ pc[w] = "write"
    /\ birds' = NewBirdsValue(w)
    /\ resp' = [resp EXCEPT ![w] = Response(StatusFound, "", "/assets/")]
    /\ pc' = [pc EXCEPT ![w] = "idle"]
    /\ raced' = [g \in Workers |-> IF pc[g] = "marshal" THEN TRUE ELSE raced[g]]
    /\ UNCHANGED <<op, req, bird, snap, before>>
    /\ UNCHANGED dbVars

PostIndexes == 1..Len(PostRequests)

\* No handler is running.
Quiet == \A w \in Workers : Idle(w)

InitHttp ==
    /\ birds = <<>>
    /\ pc = [w \in Workers |-> "idle"]
    /\ op = [w \in Workers |-> "none"]
    /\ req = [w \in Workers |-> 0]
    /\ bird = [w \in Workers |-> NoBird]
    /\ snap = [w \in Workers |-> <<>>]
    /\ resp = [w \in Workers |-> NoResp]
    /\ before = <<>>
    /\ raced = [w \in Workers |-> FALSE]

InitDb ==
    /\ dbpc = "idle"
    /\ rows = <<>>
    /\ pos = 0
    /\ cursor = "none"
    /\ rowsErr = FALSE
    /\ out = [nil |-> TRUE, items |-> <<>>]
    /\ ret = [birds |-> [nil |-> TRUE, items |-> <<>>], err |-> "none"]

Init == InitHttp /\ InitDb

\* One request at a time: a request starts only when no handler is running.
ServeHello == \E w \in Workers : Quiet /\ handler(w)
ServeGet == \E w \in Workers : Quiet /\ getBirdHandler_reset(w)
ServeCreate == \E w \in Workers : \E i \in PostIndexes : Quiet /\ createBirdHandler_parse(w, i)
StepGet == \E w \in Workers : getBirdHandler_marshal(w)
StepRead == \E w \in Workers : createBirdHandler_read(w)
StepWrite == \E w \in Workers : createBirdHandler_write(w)

Next == ServeHello \/ ServeGet \/ ServeCreate \/ StepGet \/ StepRead \/ StepWrite

Spec == Init /\ [][Next]_vars

\* One goroutine per request: a request starts whatever the others are doing.
ConcHello == \E w \in Workers : handler(w)
ConcGet == \E w \in Workers : getBirdHandler_reset(w)
ConcCreate == \E w \in Workers : \E i \in PostIndexes : createBirdHandler_parse(w, i)

NextConc == ConcHello \/ ConcGet \/ ConcCreate \/ StepGet \/ StepRead \/ StepWrite

SpecConc == Init /\ [][NextConc]_vars

----------------------------------------------------------------------------
(* dbStore.GetBirds, main.go:157-183, over database/sql's Query/Next/Scan *)

\* A column value as the driver delivers it: text, or SQL NULL.
Text(s) == [null |-> FALSE, str |-> s]
Null == [null |-> TRUE, str |-> <<>>]

\* The rows a `SELECT species, description from birds` may deliver.
RowValues == { <<Text(Crow), Text(BlackBird)>>,
               <<Text(<<>>), Text(<<>>)>>,
               <<Null, Text(BlackBird)>> }

ResultSets == UNION { [1..n -> RowValues] : n \in 0..MaxRows }

\* rows.Scan(&bird.Species, &bird.Description), main.go:175: a NULL cannot be
\* stored in a string destination.
Scan(row) ==
    IF row[1].null \/ row[2].null
    THEN [err |-> TRUE, bird |-> NoBird]
    ELSE [err |-> FALSE, bird |-> Bird(row[1].str, row[2].str)]

NilSlice == [nil |-> TRUE, items |-> <<>>]

NewResult_nil == [nil |-> TRUE, items |-> <<>>]

\* main.go:169  birds := []*Bird{}
NewResult == [nil |-> FALSE, items |-> <<>>]

CursorAtReturn_noDefer(c) == c

\* main.go:165  defer rows.Close(): the cursor's state once GetBirds has returned.
CursorAtReturn(c) == "closed"

\* main.go:160-169: the query is run; when it fails GetBirds returns at once.
GetBirds_query(result, fail) ==
    /\ dbpc \in {"idle", "returned"}
    /\ pos' = 0
    /\ rowsErr' = FALSE
    /\ IF fail
       THEN /\ rows' = <<>>
            /\ cursor' = "none"
            /\ out' = NilSlice
            /\ ret' = [birds |-> NilSlice, err |-> "query"]
            /\ dbpc' = "returned"
       ELSE /\ rows' = result
            /\ cursor' = "open"
            /\ out' = NewResult
            /\ ret' = [birds |-> NilSlice, err |-> "none"]
            /\ dbpc' = "iter"
    /\ UNCHANGED httpVars

\* main.go:170-181: rows.Next() delivers a row, which is scanned and appended;
\* a scan error returns (nil, err).
GetBirds_row ==
    /\ dbpc = "iter"
    /\ pos < Len(rows)
    /\ pos' = pos + 1
    /\ LET r == Scan(rows[pos + 1])
       IN  IF r.err
           THEN /\ ret' = [birds |-> NilSlice, err |-> "scan"]
                /\ cursor' = CursorAtReturn(cursor)
                /\ dbpc' = "returned"
                /\ out' = out
           ELSE /\ out' = [out EXCEPT !.items = Append(@, r.bird)]
                /\ UNCHANGED <<ret, cursor, dbpc>>
    /\ UNCHANGED <<rows, rowsErr>>
    /\ UNCHANGED httpVars

\* main.go:170, 182: rows.Next() reports false after the last row (closing the
\* cursor itself) and GetBirds returns (birds, nil).
GetBirds_end ==
    /\ dbpc = "iter"
    /\ pos = Len(rows)
    /\ cursor' = "closed"
    /\ ret' = [birds |-> out, err |-> "none"]
    /\ dbpc' = "returned"
    /\ UNCHANGED <<rows, pos, rowsErr, out>>
    /\ UNCHANGED httpVars

\* main.go:170, 182: rows.Next() also reports false when the driver fails to
\* deliver the next row (the error is kept for rows.Err(), which GetBirds does
\* not consult); the loop ends and GetBirds returns (birds, nil).
GetBirds_nextError ==
    /\ dbpc = "iter"
    /\ rowsErr' = TRUE
    /\ cursor' = "closed"
    /\ ret' = [birds |-> out, err |-> "none"]
    /\ dbpc' = "returned"
    /\ UNCHANGED <<rows, pos, out>>
    /\ UNCHANGED httpVars

CallGetBirds == \E result \in ResultSets : \E fail \in BOOLEAN : GetBirds_query(result, fail)

NextDb == CallGetBirds \/ GetBirds_row \/ GetBirds_end \/ GetBirds_nextError

SpecDb == Init /\ [][NextDb]_vars

----------------------------------------------------------------------------
(* Properties *)

RECURSIVE IsSubseq(_, _)
\* Every element of a occurs in b, in the same order.
IsSubseq(a, b) ==
    IF a = <<>> THEN TRUE
    ELSE IF b = <<>> THEN FALSE
    ELSE IF Head(a) = Head(b) THEN IsSubseq(Tail(a), Tail(b))
    ELSE IsSubseq(a, Tail(b))

Contains(l, b) == \E k \in 1..Len(l) : l[k] = b

\* The record a POST request submits.
Submitted(i) == Bird(PostRequests[i].species, PostRequests[i].description)

\* Every record a list can hold, and every list a response can encode.
BirdUniverse == { SeedList[1] } \cup { Submitted(i) : i \in PostIndexes }
BirdLists == UNION { [1..n -> BirdUniverse] : n \in 0..(MaxBirds + 1) }

\* The JSON text of the one-element seed list.
SeedJSON == "[{\"species\":\"Chimni\",\"description\":\"Found in India\"}]"

Redirect == Response(StatusFound, "", "/assets/")

\* C1: with one request at a time, the response of GET /bird encodes a list that
\* includes every record stored when the GET started (the records created by the
\* POSTs before it), in the order in which they were created.
C1_ReadIncludesCreated ==
    [][\A w \in Workers :
          getBirdHandler_marshal(w) =>
              \E L \in BirdLists :
                  /\ Marshal(L).bytes = resp'[w].body
                  /\ IsSubseq(before, L)]_vars

\* C2: with one request at a time, a well-formed POST /bird is not refused, and
\* when its handler stores the list the response is the 302 redirect to /assets/
\* and the list is the list from before the request with exactly the submitted
\* record added at the end.
C2_CreateAppendsOne ==
    [][\A w \in Workers :
          /\ \A i \in PostIndexes :
                 (createBirdHandler_parse(w, i) /\ PostRequests[i].wellformed) =>
                     /\ pc'[w] = "read"
                     /\ resp'[w].status # StatusInternalServerError
                     /\ birds' = birds
          /\ createBirdHandler_read(w) => birds' = birds
          /\ createBirdHandler_write(w) =>
                 /\ PostRequests[req[w]].wellformed
                 /\ resp'[w] = Redirect
                 /\ Len(birds') = Len(before) + 1
                 /\ SubSeq(birds', 1, Len(before)) = before
                 /\ birds'[Len(birds')] = Submitted(req[w])]_vars

\* C2 witness: a POST without a species field has been answered 302 and its
\* record, with the empty species, stands behind an earlier record.
C2_Witness ==
    \E w \in Workers :
        /\ Idle(w) /\ op[w] = "create" /\ req[w] = 3
        /\ resp[w] = Redirect
        /\ Len(birds) = 2
        /\ birds[1] # birds[2]
        /\ birds[2] = Bird(<<>>, <<"<", "3">>)
        /\ before = <<birds[1]>>

\* C3: with one request at a time, a POST /bird whose form encoding is malformed
\* is answered 500 with no redirect, the handler has returned, and the list is
\* as it was.
C3_MalformedRefused ==
    [][\A w \in Workers : \A i \in PostIndexes :
          (createBirdHandler_parse(w, i) /\ ~PostRequests[i].wellformed) =>
              /\ resp'[w] = Response(StatusInternalServerError, "", "")
              /\ pc'[w] = "idle"
              /\ birds' = birds]_vars

\* C3 witness: a malformed POST has been answered 500 while the list held a
\* record, and the list is still the one from before the request.
C3_Witness ==
    \E w \in Workers :
        /\ Idle(w) /\ op[w] = "create" /\ req[w] = 6
        /\ resp[w].status = StatusInternalServerError
        /\ resp[w].location = ""
        /\ birds # <<>>
        /\ birds = before

\* C4: with one request at a time, GET /bird overwrites the list with the seed
\* record and then answers 200 with the JSON of the one-element seed list, and
\* the list holds exactly the seed record when the handler returns.
C4_GetAnswersSeed ==
    [][\A w \in Workers :
          /\ getBirdHandler_reset(w) => birds' = SeedList
          /\ getBirdHandler_marshal(w) =>
                 /\ resp'[w] = Response(StatusOK, SeedJSON, "")
                 /\ birds' = SeedList]_vars

\* C4 witness: a GET that started on a list of two created records has
\* answered the seed list.
C4_Witness ==
    \E w \in Workers :
        /\ Idle(w) /\ op[w] = "get"
        /\ resp[w] = Response(StatusOK, SeedJSON, "")
        /\ birds = SeedList
        /\ Len(before) = 2 /\ ~Contains(before, SeedList[1])

\* C5: when GetBirds has returned, a non-nil error comes with a nil slice, a
\* result with a row that cannot be scanned is answered with an error, and a
\* nil error comes with every row of the query result.
C5_NoPartialList ==
    dbpc = "returned" =>
        /\ ret.err # "none" => ret.birds.nil
        /\ ret.err = "none" =>
               /\ ~ret.birds.nil
               /\ Len(ret.birds.items) = Len(rows)
               /\ \A k \in 1..Len(rows) :
                      ~Scan(rows[k]).err /\ ret.birds.items[k] = Scan(rows[k]).bird

\* C6: when the query succeeds with zero rows, GetBirds returns an empty slice
\* that is not nil, and a nil error.
C6_EmptyNotNil ==
    (dbpc = "returned" /\ cursor # "none" /\ rows = <<>>) =>
        ret = [birds |-> [nil |-> FALSE, items |-> <<>>], err |-> "none"]

\* C6 witness: GetBirds has returned from a successful query of zero rows.
C6_Witness ==
    /\ dbpc = "returned" /\ cursor = "closed" /\ rows = <<>> /\ ~rowsErr
    /\ ret.err = "none" /\ ret.birds.items = <<>>

\* C7: GET /hello answers 200 with the body "Hello World!" and leaves the list
\* as it is, whatever was served before and whatever else is being served.
C7_Hello ==
    [][\A w \in Workers :
          handler(w) =>
              /\ resp'[w] = Response(StatusOK, "Hello World!", "")
              /\ birds' = birds]_vars

\* C7 witness: GET /hello has been answered while the list held records and
\* the other goroutine was inside createBirdHandler.
C7_Witness ==
    \E w \in Workers : \E v \in Workers \ {w} :
        /\ Idle(w) /\ op[w] = "hello"
        /\ resp[w] = Response(StatusOK, "Hello World!", "")
        /\ birds # <<>>
        /\ pc[v] = "write"

\* C8: when a POST /bird stores its list after another POST, which had read the
\* same list, has stored its own and been answered 302, the later store is
\* answered 302 as well and overwrites the earlier one: the list does not grow
\* and holds the later record in the place of the earlier.
C8_LostUpdate ==
    [][\A w \in Workers : \A v \in Workers \ {w} :
          ( /\ createBirdHandler_write(w)
            /\ Idle(v) /\ op[v] = "create" /\ resp[v] = Redirect
            /\ snap[v] = snap[w]
            /\ birds = Append(snap[v], bird[v]) ) =>
              /\ resp'[w] = Redirect
              /\ Len(birds') = Len(birds)
              /\ SubSeq(birds', 1, Len(snap[w])) = snap[w]
              /\ birds'[Len(birds')] = bird[w]]_vars

\* C8 witness: two POSTs with different records have both been answered 302
\* and the list holds only one of the two records.
C8_Witness ==
    \E w \in Workers : \E v \in Workers \ {w} :
        /\ Idle(w) /\ op[w] = "create" /\ resp[w] = Redirect
        /\ Idle(v) /\ op[v] = "create" /\ resp[v] = Redirect
        /\ bird[v] # bird[w]
        /\ snap[v] = snap[w]
        /\ birds = Append(snap[w], bird[w])
        /\ ~Contains(birds, bird[v])

\* C9: a GET /bird answers something other than the seed list only when a
\* POST /bird stored its list between the GET's reset and its encoding.
C9_NonSeedOnlyByRace ==
    \A g \in Workers :
        (Idle(g) /\ op[g] = "get") =>
            /\ resp[g].status = StatusOK
            /\ resp[g].body # SeedJSON => raced[g]

\* C9 witness: a GET has answered the seed record followed by the record of a
\* POST that read the list after the GET's reset and stored it before the
\* GET's encoding.
C9_Witness ==
    \E g \in Workers : \E c \in Workers \ {g} :
        /\ Idle(g) /\ op[g] = "get" /\ raced[g]
        /\ Idle(c) /\ op[c] = "create" /\ resp[c] = Redirect
        /\ snap[c] = SeedList
        /\ resp[g] = Response(StatusOK, Marshal(Append(SeedList, bird[c])).bytes, "")

\* C10: when GetBirds has returned, no cursor is open: after a failed query
\* none was opened, and after a successful one it is closed, on the normal
\* return and on the return for a scan error alike.
C10_CursorReleased ==
    dbpc = "returned" =>
        IF ret.err = "query" THEN cursor = "none" ELSE cursor = "closed"

\* C10 witness: GetBirds has returned for a scan error on a later row.
C10_Witness ==
    /\ dbpc = "returned" /\ ret.err = "scan" /\ pos >= 2 /\ cursor = "closed"

====
